---- MODULE Spec2Model ----
(***************************************************************************)
(* Model of the market-data ingestion core of the trading dashboard:       *)
(*   - dash-state:     MarketState / AppState (the reactive store)         *)
(*   - dash-websocket: ReconnectPolicy, WsClient connection loop, WsHandle *)
(*   - dash-core:      WsMessage envelope, MarketDepth::from_orderbook,    *)
(*                     Candle::new / Candle::update                        *)
(*                                                                         *)
(* Option<T> is modelled as a sequence: <<>> is None, <<x>> is Some(x).    *)
(* f64 prices and quantities are modelled by integers.                     *)
(* A u32 attempt number is held as the i32 with the same bits.             *)
(***************************************************************************)
EXTENDS Integers, Sequences, FiniteSets, TLC

VARIABLES
    market,        \* AppState.market : MarketState (record of its signals)
    connection,    \* AppState.connection : ConnectionState
    error,         \* AppState.error : Option<String>
    pc,            \* position of the task running run_connection_loop
    attempt,       \* run_connection_loop: let mut attempt
    delay,         \* run_connection_loop: let delay (the delay last waited on)
    stopped,       \* WsHandle.stopped (shared Rc<Cell<bool>>)
    policy,        \* WsConfig.reconnect_policy : ExponentialBackoff
    warn_enabled,  \* whether the tracing subscriber enables WARN events
    wq,            \* signal writes of the running store handler not yet performed
    seen,          \* last (orderbook, depth) pair read by a reactive observer
    inbound,       \* history: frames returned by read.next() and not dropped on stop
    last_event,    \* history: what the loop task last resumed on
    opens,         \* history: number of successful WebSocket::open calls
    resets,        \* history: number of policy.reset() calls
    waits,         \* history: backoff waits completed since the last successful open
    total_waits,   \* history: backoff waits completed since the start
    connects,      \* history: number of WebSocket::open calls
    dropped,       \* history: frames returned by read.next() after stop was signaled
    exit_reason,   \* history: which break ended the loop
    conn_path,     \* history: the values of AppState.connection before and during the
                   \* last step of the loop task, one per write of the signal
    inserted,      \* history: trades passed to add_trade since the buffer was empty
    lastop,        \* history: last store operation, its argument and the store before it
    nops,          \* history: number of store operations performed
    current_candle, \* MockMarket.current_candle: a Candle mutated through &mut self
    call,          \* history: last call of a pure function, its arguments and result
    heap           \* the Rc<Cell<bool>> cells and the WsHandles that point to them

vars == << market, connection, error, pc, attempt, delay, stopped, policy,
           warn_enabled, wq, seen, inbound, last_event, opens, resets, waits,
           total_waits, connects, dropped, exit_reason, conn_path, inserted, lastop,
           nops,
           current_candle, call, heap >>

storeVars == << market, wq, seen, inserted, lastop, nops, current_candle, call, heap >>

clientVars == << connection, error, pc, attempt, delay, stopped, policy,
                 warn_enabled, inbound, last_event, opens, resets, waits,
                 total_waits, connects, dropped, exit_reason, conn_path >>

-----------------------------------------------------------------------------
(* Program constants *)

MAX_TRADES == 100
MAX_CANDLES == 200
\* the prefix of an undecodable frame that process_message logs
LOG_PREFIX_BYTES == 100
\* delay_ms: multiplier of the pseudo-random jitter, and the floor after jitter
JITTER_PRIME == 7919
JITTER_FLOOR_MS == 100

(* Bounds of the model *)

\* number of add_trade calls explored (must exceed MAX_TRADES)
MaxInserted == 102
\* number of leading add_trade calls whose trade side is chosen freely
FreeTrades == 3
\* number of store operations explored from the initial store
MaxStoreOps == 3
\* number of store handlers run at the granularity of signal writes
MaxAtomicOps == 3
\* frames returned by read.next() over the run
MaxFrames == 2
\* WebSocket::open calls over the run
MaxConnects == 3
\* largest max_attempts of the policies explored
MaxPolicyAttempts == 2

-----------------------------------------------------------------------------
(* Helpers *)

None == << >>

Some(x) == << x >>

Last(s) == s[Len(s)]

Min(a, b) == IF a < b THEN a ELSE b

Max(a, b) == IF a > b THEN a ELSE b

-----------------------------------------------------------------------------
(* dash-core value model *)

DefaultSymbol == "BTC-USD"

Symbols == { "BTC-USD", "ETH-USD" }

Intervals == { "M1", "M5" }

CandleHistory_new(symbol, interval) ==
    [ symbol |-> symbol, interval |-> interval, candles |-> << >> ]

OrderBookLevel_value(level) == level.price * level.quantity

CumulativeDepth_mut_per_level(levels, cum_qty, cum_val) ==
    [ i \in 1..Len(levels) |->
        [ price |-> levels[i].price,
          cumulative_quantity |-> levels[i].quantity,
          cumulative_value |-> OrderBookLevel_value(levels[i]) ] ]

RECURSIVE CumulativeDepth(_, _, _)
\* the loop body of from_orderbook over one side: running sums per level
CumulativeDepth(levels, cum_qty, cum_val) ==
    IF levels = << >> THEN << >>
    ELSE LET level == Head(levels)
             q == cum_qty + level.quantity
             v == cum_val + OrderBookLevel_value(level)
         IN  << [ price |-> level.price,
                  cumulative_quantity |-> q,
                  cumulative_value |-> v ] >>
             \o CumulativeDepth(Tail(levels), q, v)

from_orderbook(book) ==
    [ symbol |-> book.symbol,
      bid_depth |-> CumulativeDepth(book.bids, 0, 0),
      ask_depth |-> CumulativeDepth(book.asks, 0, 0) ]

-----------------------------------------------------------------------------
(* dash-state: MarketState *)

LastUpdateSignals_new == [ ticker |-> 0, orderbook |-> 0, trade |-> 0, candle |-> 0 ]

MarketState_new ==
    [ symbol |-> DefaultSymbol,
      ticker |-> None,
      orderbook |-> None,
      depth |-> None,
      trades |-> << >>,
      candles |-> CandleHistory_new(DefaultSymbol, "M1"),
      interval |-> "M1",
      last_update |-> LastUpdateSignals_new ]

\* One signal write: RwSignal::set on a field of MarketState (or of last_update).
ApplyWrite(m, w) ==
    IF w.group = "last_update"
    THEN [ m EXCEPT !.last_update[w.field] = w.value ]
    ELSE [ m EXCEPT ![w.field] = w.value ]

RECURSIVE ApplyWrites(_, _)
ApplyWrites(m, ws) ==
    IF ws = << >> THEN m ELSE ApplyWrites(ApplyWrite(m, Head(ws)), Tail(ws))

update_ticker(m, ticker) ==
    [ m EXCEPT !.last_update.ticker = ticker.timestamp,
               !.ticker = Some(ticker) ]

update_orderbook_writes_mut_stale_depth(book) ==
    << [ group |-> "last_update", field |-> "orderbook", value |-> book.timestamp ],
       [ group |-> "market", field |-> "orderbook", value |-> Some(book) ] >>

\* The signal writes of update_orderbook, in program order.
update_orderbook_writes(book) ==
    << [ group |-> "last_update", field |-> "orderbook", value |-> book.timestamp ],
       [ group |-> "market", field |-> "depth", value |-> Some(from_orderbook(book)) ],
       [ group |-> "market", field |-> "orderbook", value |-> Some(book) ] >>

update_orderbook_mut_keep_newer(m, book) ==
    IF m.orderbook # None /\ book.sequence < m.orderbook[1].sequence
    THEN m
    ELSE ApplyWrites(m, update_orderbook_writes(book))

update_orderbook(m, book) == ApplyWrites(m, update_orderbook_writes(book))

add_trade_mut_ge(m, trade) ==
    [ m EXCEPT !.last_update.trade = trade.timestamp,
               !.trades = LET ins == << trade >> \o m.trades
                          IN  IF Len(ins) >= MAX_TRADES
                              THEN SubSeq(ins, 1, Len(ins) - 1)
                              ELSE ins ]

add_trade(m, trade) ==
    [ m EXCEPT !.last_update.trade = trade.timestamp,
               !.trades = LET ins == << trade >> \o m.trades
                          IN  IF Len(ins) > MAX_TRADES
                              THEN SubSeq(ins, 1, Len(ins) - 1)
                              ELSE ins ]

\* for trade in new_trades { trades.insert(0, trade) }: the i-th insertion
\* puts new_trades[i] in front of the i - 1 trades inserted before it, so
\* after the loop new_trades[n] is at index 1 and new_trades[1] at index n.
InsertEachAtHead(trades, new_trades) ==
    LET n == Len(new_trades)
    IN  [ i \in 1..(n + Len(trades)) |->
            IF i <= n THEN new_trades[n + 1 - i] ELSE trades[i - n] ]

add_trades(m, new_trades) ==
    IF new_trades = << >> THEN m
    ELSE [ m EXCEPT !.last_update.trade = Head(new_trades).timestamp,
                    !.trades = LET ins == InsertEachAtHead(m.trades, new_trades)
                               IN  SubSeq(ins, 1, Min(Len(ins), MAX_TRADES)) ]

update_candle_mut_upsert(m, candle) ==
    LET cs == m.candles.candles
        same == { i \in 1..Len(cs) : cs[i].timestamp = candle.timestamp }
    IN  IF same # { }
        THEN [ m EXCEPT !.last_update.candle = candle.timestamp,
                        !.candles.candles =
                            [ i \in 1..Len(cs) |-> IF i \in same THEN candle ELSE cs[i] ] ]
        ELSE LET pushed == Append(cs, candle)
             IN  [ m EXCEPT !.last_update.candle = candle.timestamp,
                            !.candles.candles =
                                IF Len(pushed) > MAX_CANDLES THEN Tail(pushed) ELSE pushed ]

update_candle_mut_noclosed(m, candle) ==
    LET cs == m.candles.candles
    IN  IF cs # << >> /\ Last(cs).timestamp = candle.timestamp
        THEN [ m EXCEPT !.last_update.candle = candle.timestamp,
                        !.candles.candles = [ cs EXCEPT ![Len(cs)] = candle ] ]
        ELSE LET pushed == Append(cs, candle)
             IN  [ m EXCEPT !.last_update.candle = candle.timestamp,
                            !.candles.candles =
                                IF Len(pushed) > MAX_CANDLES THEN Tail(pushed) ELSE pushed ]

update_candle(m, candle) ==
    LET cs == m.candles.candles
    IN  IF cs # << >> /\ Last(cs).timestamp = candle.timestamp /\ ~Last(cs).is_closed
        THEN [ m EXCEPT !.last_update.candle = candle.timestamp,
                        !.candles.candles = [ cs EXCEPT ![Len(cs)] = candle ] ]
        ELSE LET pushed == Append(cs, candle)
             IN  [ m EXCEPT !.last_update.candle = candle.timestamp,
                            !.candles.candles =
                                IF Len(pushed) > MAX_CANDLES THEN Tail(pushed) ELSE pushed ]

set_candles(m, candles) ==
    [ m EXCEPT !.last_update.candle =
                   IF candles # << >> THEN Last(candles).timestamp ELSE @,
               !.candles = [ symbol |-> m.symbol,
                             interval |-> m.interval,
                             candles |-> candles ] ]

set_symbol_writes_mut_keep_trades(m, symbol) ==
    << [ group |-> "market", field |-> "symbol", value |-> symbol ],
       [ group |-> "market", field |-> "ticker", value |-> None ],
       [ group |-> "market", field |-> "orderbook", value |-> None ],
       [ group |-> "market", field |-> "depth", value |-> None ],
       [ group |-> "market", field |-> "candles",
         value |-> CandleHistory_new(symbol, m.interval) ] >>

\* The signal writes of set_symbol, in program order.
set_symbol_writes(m, symbol) ==
    << [ group |-> "market", field |-> "symbol", value |-> symbol ],
       [ group |-> "market", field |-> "ticker", value |-> None ],
       [ group |-> "market", field |-> "orderbook", value |-> None ],
       [ group |-> "market", field |-> "depth", value |-> None ],
       [ group |-> "market", field |-> "trades", value |-> << >> ],
       [ group |-> "market", field |-> "candles",
         value |-> CandleHistory_new(symbol, m.interval) ] >>

set_symbol(m, symbol) == ApplyWrites(m, set_symbol_writes(m, symbol))

set_interval_mut_clear_all(m, interval) ==
    [ m EXCEPT !.interval = interval,
               !.ticker = None, !.orderbook = None, !.depth = None,
               !.trades = << >>,
               !.candles = CandleHistory_new(m.symbol, interval) ]

set_interval(m, interval) ==
    [ m EXCEPT !.interval = interval,
               !.candles = CandleHistory_new(m.symbol, interval) ]

\* The signal writes of clear, in program order.
clear_writes(m) ==
    << [ group |-> "market", field |-> "ticker", value |-> None ],
       [ group |-> "market", field |-> "orderbook", value |-> None ],
       [ group |-> "market", field |-> "depth", value |-> None ],
       [ group |-> "market", field |-> "trades", value |-> << >> ],
       [ group |-> "market", field |-> "candles",
         value |-> CandleHistory_new(m.symbol, m.interval) ] >>

clear(m) == ApplyWrites(m, clear_writes(m))

-----------------------------------------------------------------------------
(* WsHandle (client.rs): handles that share one Rc<Cell<bool>> stop flag.    *)
(* The heap holds the allocated cells and, per handle, its owner, the cell  *)
(* its Rc points to and whether the handle has not been dropped yet.        *)

EmptyHeap == [ cells |-> << >>, handles |-> << >> ]

\* WsHandle::new(): a fresh cell holding false
WsHandle_new(H, owner) ==
    [ cells |-> Append(H.cells, FALSE),
      handles |-> Append(H.handles,
                         [ owner |-> owner, cell |-> Len(H.cells) + 1, live |-> TRUE ]) ]

\* a clone that copied the flag into a cell of its own instead of sharing it
WsHandle_clone_mut_deep(H, h, owner) ==
    [ cells |-> Append(H.cells, H.cells[H.handles[h].cell]),
      handles |-> Append(H.handles,
                         [ owner |-> owner, cell |-> Len(H.cells) + 1, live |-> TRUE ]) ]

\* #[derive(Clone)]: Rc::clone, the new handle points to the same cell
WsHandle_clone(H, h, owner) ==
    [ H EXCEPT !.handles = Append(@, [ owner |-> owner, cell |-> H.handles[h].cell,
                                       live |-> TRUE ]) ]

LiveHandles(H) == { h \in 1..Len(H.handles) : H.handles[h].live }

\* Rc::strong_count(&self.stopped)
strong_count(H, h) ==
    Cardinality({ g \in LiveHandles(H) : H.handles[g].cell = H.handles[h].cell })

stop(H, h) == [ H EXCEPT !.cells[H.handles[h].cell] = TRUE ]

is_stopped(H, h) == H.cells[H.handles[h].cell]

is_running(H, h) == ~H.cells[H.handles[h].cell]

\* impl Drop for WsHandle, then the drop of its Rc field
WsHandle_drop(H, h) ==
    LET stopped_if_last == IF strong_count(H, h) = 1 THEN stop(H, h) ELSE H
    IN  [ stopped_if_last EXCEPT !.handles[h].live = FALSE ]

\* WsClient::connect: the caller gets handle 1, the spawned task a clone of it
CallerHandle == 1

TaskHandle == 2

connect == WsHandle_clone(WsHandle_new(EmptyHeap, "caller"), CallerHandle, "task")

-----------------------------------------------------------------------------
(* Initial state: AppState::new(), WsHandle::new(), task spawned but not run *)

NoOp == [ op |-> "none", arg |-> << >>, pre |-> MarketState_new ]

NoSeen == [ orderbook |-> None, depth |-> None ]

NoCall == [ fn |-> "none", self |-> << >>, arg |-> << >>, result |-> << >> ]

DefaultPolicy ==
    [ initial_delay_ms |-> 1000, max_delay_ms |-> 30000,
      mult_num |-> 3, mult_den |-> 2, max_attempts |-> 0, jitter |-> TRUE ]

InitStore ==
    /\ market = MarketState_new
    /\ wq = << >>
    /\ seen = NoSeen
    /\ inserted = << >>
    /\ lastop = NoOp
    /\ nops = 0
    /\ current_candle = None
    /\ heap = connect
    /\ call = NoCall

InitClientWith(p, w) ==
    /\ connection = "Disconnected"
    /\ error = None
    /\ pc = "spawned"
    /\ attempt = 0
    /\ delay = 0
    /\ stopped = FALSE
    /\ policy = p
    /\ warn_enabled = w
    /\ inbound = << >>
    /\ last_event = "none"
    /\ opens = 0
    /\ resets = 0
    /\ waits = 0
    /\ total_waits = 0
    /\ connects = 0
    /\ dropped = 0
    /\ exit_reason = "none"
    /\ conn_path = << "Disconnected" >>

-----------------------------------------------------------------------------
(* SpecTrades: the trade buffer under add_trade *)

TradeSides == { "Buy", "Sell" }

\* Trades the feed may deliver as the k-th trade: unique id, increasing timestamp.
TradeInputs(k) ==
    { [ id |-> k, symbol |-> DefaultSymbol, price |-> 100 + (k % 7),
        quantity |-> 1 + (k % 3), side |-> s, timestamp |-> 1000 + k ] :
      s \in IF k <= FreeTrades THEN TradeSides ELSE { "Buy" } }

AddTrade ==
    /\ Len(inserted) < MaxInserted
    /\ \E t \in TradeInputs(Len(inserted) + 1) :
          /\ market' = add_trade(market, t)
          /\ inserted' = Append(inserted, t)
          /\ lastop' = [ op |-> "add_trade", arg |-> t, pre |-> MarketState_new ]
    /\ nops' = nops + 1
    /\ UNCHANGED << wq, seen, current_candle, call, heap >>
    /\ UNCHANGED clientVars

InitTrades == InitStore /\ InitClientWith(DefaultPolicy, FALSE)

NextTrades == AddTrade

SpecTrades == InitTrades /\ [][NextTrades]_vars

\* C2: after k add_trade calls from an empty buffer the buffer holds exactly
\* min(k, 100) trades, most recent first, namely the last min(k, 100) trades
\* inserted; its length never exceeds 100.
Thm_C2 ==
    /\ Len(market.trades) = Min(Len(inserted), MAX_TRADES)
    /\ Len(market.trades) <= MAX_TRADES
    /\ \A i \in 1..Len(market.trades) :
          market.trades[i] = inserted[Len(inserted) - i + 1]

Wit_C2 ==
    /\ Len(inserted) > MAX_TRADES
    /\ Len(market.trades) = MAX_TRADES
    /\ market.trades[1] = Last(inserted)

-----------------------------------------------------------------------------
(* SpecCandles: the candle history under the market-store operations *)

Candle_new(symbol, interval, timestamp, open) ==
    [ symbol |-> symbol, interval |-> interval, timestamp |-> timestamp,
      open |-> open, high |-> open, low |-> open, close |-> open,
      volume |-> 0, quote_volume |-> 0, trade_count |-> 0, is_closed |-> FALSE ]

\* A candle as the feed delivers it: opened at 1, last traded at close.
FeedCandle(symbol, timestamp, close, is_closed) ==
    [ Candle_new(symbol, "M1", timestamp, 1) EXCEPT
          !.high = Max(1, close), !.close = close, !.volume = close,
          !.quote_volume = close * close, !.trade_count = 1,
          !.is_closed = is_closed ]

LastTimestamp(m) ==
    IF m.candles.candles = << >> THEN 0 ELSE Last(m.candles.candles).timestamp

\* Candles passed to update_candle: the open-timestamp of the last stored
\* candle, the one before it or the next one; still forming or closed.
CandleInputs(m) ==
    { FeedCandle(m.symbol, ts, close, is_closed) :
        ts \in { t \in { LastTimestamp(m) - 1, LastTimestamp(m), LastTimestamp(m) + 1 } :
                 t >= 1 },
        close \in { 1, 2 },
        is_closed \in BOOLEAN }

\* Bulk loads passed to set_candles: n candles with open-timestamps 1..n,
\* all closed except possibly the last.
BulkCandles(m, n, last_closed) ==
    [ i \in 1..n |-> FeedCandle(m.symbol, i, 1, (i < n) \/ last_closed) ]

BulkSizes == { 0, 1, MAX_CANDLES - 1, MAX_CANDLES, MAX_CANDLES + 1 }

StoreOp(op, arg, m) ==
    /\ nops < MaxStoreOps
    /\ nops' = nops + 1
    /\ lastop' = [ op |-> op, arg |-> arg, pre |-> market ]
    /\ market' = m
    /\ UNCHANGED << wq, seen, inserted, current_candle, call, heap >>
    /\ UNCHANGED clientVars

UpdateCandle ==
    \E c \in CandleInputs(market) :
        StoreOp("update_candle", c, update_candle(market, c))

SetCandles ==
    \E n \in BulkSizes, last_closed \in BOOLEAN :
        /\ (n = 0 => last_closed)
        /\ StoreOp("set_candles", BulkCandles(market, n, last_closed),
                   set_candles(market, BulkCandles(market, n, last_closed)))

SetSymbol ==
    \E s \in Symbols : StoreOp("set_symbol", s, set_symbol(market, s))

SetInterval ==
    \E i \in Intervals : StoreOp("set_interval", i, set_interval(market, i))

Clear == StoreOp("clear", << >>, clear(market))

InitCandles == InitStore /\ InitClientWith(DefaultPolicy, FALSE)

NextCandles == UpdateCandle \/ SetCandles \/ SetSymbol \/ SetInterval \/ Clear

SpecCandles == InitCandles /\ [][NextCandles]_vars

\* C3: update_candle(c) replaces the last candle when it has c's open-timestamp
\* and is not closed (length unchanged); otherwise it appends c and, if the
\* length then exceeds 200, removes the candle at index 0, the others keeping
\* their order.
Thm_C3 ==
    lastop.op = "update_candle" =>
        LET old == lastop.pre.candles.candles
            c == lastop.arg
            new == market.candles.candles
        IN  IF old # << >> /\ Last(old).timestamp = c.timestamp /\ ~Last(old).is_closed
            THEN /\ Len(new) = Len(old)
                 /\ new[Len(new)] = c
                 /\ \A i \in 1..(Len(old) - 1) : new[i] = old[i]
            ELSE IF Len(old) + 1 > MAX_CANDLES
                 THEN /\ Len(new) = Len(old)
                      /\ new[Len(new)] = c
                      /\ \A i \in 1..(Len(old) - 1) : new[i] = old[i + 1]
                 ELSE /\ Len(new) = Len(old) + 1
                      /\ new[Len(new)] = c
                      /\ \A i \in 1..Len(old) : new[i] = old[i]

\* eviction at capacity after a closed candle with the same timestamp
Wit_C3 ==
    /\ lastop.op = "update_candle"
    /\ Len(lastop.pre.candles.candles) = MAX_CANDLES
    /\ Last(lastop.pre.candles.candles).is_closed
    /\ Last(lastop.pre.candles.candles).timestamp = lastop.arg.timestamp
    /\ Len(market.candles.candles) = MAX_CANDLES
    /\ market.candles.candles[1].timestamp = 2

\* C4: in every state reachable by update_candle, set_candles, set_symbol,
\* set_interval and clear the candle history holds at most 200 candles.
Cex_C4 == Len(market.candles.candles) <= MAX_CANDLES

\* Every candle of old that is closed or is not the last one is in new with
\* the same value, at its index or one below, or was evicted from index 1 of
\* a full history.
HistoryKept(old, new) ==
    \E shift \in { 0, 1 } :
        \A i \in 1..Len(old) :
            (i < Len(old) \/ old[i].is_closed) =>
                IF i - shift >= 1
                THEN i - shift <= Len(new) /\ new[i - shift] = old[i]
                ELSE Len(old) >= MAX_CANDLES

\* the last stored candle is closed and c opens at another timestamp
NewAfterClosed(old, c) ==
    old # << >> /\ Last(old).is_closed /\ Last(old).timestamp # c.timestamp

\* C16 as stated: after update_candle stores a closed candle with
\* open-timestamp T and then a candle with a new open-timestamp, the history
\* length has grown by 1 and the candle with timestamp T is never modified by
\* any later update_candle call, including calls carrying timestamp T again.
Cex_C16 ==
    lastop.op = "update_candle" =>
        /\ (NewAfterClosed(lastop.pre.candles.candles, lastop.arg) =>
               Len(market.candles.candles) = Len(lastop.pre.candles.candles) + 1)
        /\ HistoryKept(lastop.pre.candles.candles, market.candles.candles)

\* C16: after update_candle stores a closed candle with open-timestamp T and
\* then a candle with a new open-timestamp, the history length has grown by 1
\* if it was below 200 and is unchanged otherwise, the oldest candle being
\* evicted; the candle with timestamp T is never modified by any later
\* update_candle call, including calls carrying timestamp T again: it keeps
\* its value until it is evicted as the oldest.
Thm_C16 ==
    lastop.op = "update_candle" =>
        /\ (NewAfterClosed(lastop.pre.candles.candles, lastop.arg) =>
               Len(market.candles.candles) =
                   IF Len(lastop.pre.candles.candles) < MAX_CANDLES
                   THEN Len(lastop.pre.candles.candles) + 1
                   ELSE Len(lastop.pre.candles.candles))
        /\ HistoryKept(lastop.pre.candles.candles, market.candles.candles)

\* a call carrying the timestamp T again, after the closed candle T and a
\* candle with the next timestamp were stored: T is kept and a candle added
Wit_C16 ==
    /\ lastop.op = "update_candle"
    /\ Len(lastop.pre.candles.candles) = 2
    /\ lastop.pre.candles.candles[1].is_closed
    /\ lastop.pre.candles.candles[1].timestamp = lastop.arg.timestamp
    /\ lastop.pre.candles.candles[2].timestamp = lastop.arg.timestamp + 1
    /\ lastop.arg # lastop.pre.candles.candles[1]
    /\ Len(market.candles.candles) = 3
    /\ market.candles.candles[1] = lastop.pre.candles.candles[1]

-----------------------------------------------------------------------------
(* dash-websocket: ReconnectPolicy for ExponentialBackoff *)

\* A u32 is held as the i32 with the same bits: 0..2^31-1 as themselves and
\* 2^31..2^32-1 as the negative numbers -2^31..-1, so `x as i32` is the
\* identity on the representation.
I32_MAX == 2147483647

I32_MIN == -2147483647 - 1

\* x < y on u32
u32_lt(x, y) == IF (x < 0) = (y < 0) THEN x < y ELSE y < 0

RECURSIVE Pow(_, _)
Pow(b, e) == IF e = 0 THEN 1 ELSE b * Pow(b, e - 1)

RECURSIVE powi_scaled(_, _, _, _, _, _)
\* (n / d) * (a / b).powi(e) for e >= 0, and (n / d) * (b / a).powi(e) for
\* e < 0, truncated and saturated by `as u32`, then .min(cap).  The product is
\* followed one factor at a time until the exponent is used up, or until it
\* has reached the cap while growing or 0 while shrinking.
powi_scaled(n, d, a, b, e, cap) ==
    IF e = 0 \/ a = b THEN Min(n \div d, cap)
    ELSE IF a > b /\ n \div d >= cap THEN cap
    ELSE IF a < b /\ n \div d = 0 THEN 0
    ELSE powi_scaled(n * a, d * b, a, b, IF e > 0 THEN e - 1 ELSE e + 1, cap)

\* the 16-bit halves of a u32
u32_hi(x) == IF x >= 0 THEN x \div 65536 ELSE 32768 + (((x + I32_MAX) + 1) \div 65536)

u32_lo(x) == IF x >= 0 THEN x % 65536 ELSE ((x + I32_MAX) + 1) % 65536

\* x * k exceeds u32::MAX (k < 2^16)
mul_overflows(x, k) == (u32_hi(x) * k) + ((u32_lo(x) * k) \div 65536) >= 65536

\* (x.wrapping_mul(k)) % m on u32, for k < 2^16 and m < 46341, computed on the
\* halves so that no intermediate value leaves the 31 bits
wrapping_mul_rem(x, k, m) ==
    LET low == u32_lo(x) * k
        top == ((u32_hi(x) * k) + (low \div 65536)) % 65536
    IN  (((top % m) * (65536 % m)) + (low % 65536)) % m

\* multiplier is the rational mult_num / mult_den.  `attempt as i32` is
\* negative for attempt >= 2^31, and powi of a negative exponent divides.
\* attempt * 7919 is the wrapped product here: the value of a build without
\* overflow checks, and of any build while the product fits a u32.  The i32
\* casts of the jitter are the identity for delays below 2^31.
delay_ms(p, att) ==
    LET capped == IF att >= 0
                  THEN powi_scaled(p.initial_delay_ms, 1, p.mult_num, p.mult_den,
                                   att, p.max_delay_ms)
                  ELSE powi_scaled(p.initial_delay_ms, 1, p.mult_den, p.mult_num,
                                   att, p.max_delay_ms)
        jitter_range == capped \div 5
        jitter == wrapping_mul_rem(att, JITTER_PRIME, jitter_range * 2 + 1) - jitter_range
    IN  IF p.jitter THEN Max(capped + jitter, JITTER_FLOOR_MS) ELSE capped

\* delay_ms as built: with overflow checks (the dev profile) attempt * 7919
\* panics when it exceeds u32::MAX, without them (the release profile) it wraps.
\* None is the panic.
delay_ms_build(p, att, overflow_checks) ==
    IF p.jitter /\ overflow_checks /\ mul_overflows(att, JITTER_PRIME)
    THEN None
    ELSE Some(delay_ms(p, att))

should_reconnect_mut_le(p, att) ==
    p.max_attempts = 0 \/ att = p.max_attempts \/ u32_lt(att, p.max_attempts)

should_reconnect(p, att) == p.max_attempts = 0 \/ u32_lt(att, p.max_attempts)

\* ExponentialBackoff is stateless, nothing to reset
reset(p) == p

\* ExponentialBackoff::conservative()
ConservativePolicy ==
    [ initial_delay_ms |-> 2000, max_delay_ms |-> 60000,
      mult_num |-> 2, mult_den |-> 1, max_attempts |-> 10, jitter |-> TRUE ]

\* The policy of test_exponential_backoff
TestPolicy ==
    [ initial_delay_ms |-> 1000, max_delay_ms |-> 10000,
      mult_num |-> 2, mult_den |-> 1, max_attempts |-> 5, jitter |-> FALSE ]

Policies ==
    { [ DefaultPolicy EXCEPT !.max_attempts = n ] : n \in 0..MaxPolicyAttempts }
    \cup { [ TestPolicy EXCEPT !.max_attempts = n ] : n \in 1..MaxPolicyAttempts }

-----------------------------------------------------------------------------
(* Frames on the wire *)

\* A text is its characters (runs of n characters of w bytes each, UTF-8)
\* and what a JSON parser makes of it (None: not JSON).
Ascii(n) == << [ w |-> 1, n |-> n ] >>

RECURSIVE ByteLen(_)
ByteLen(chars) ==
    IF chars = << >> THEN 0 ELSE Head(chars).w * Head(chars).n + ByteLen(Tail(chars))

RECURSIVE CharStarts(_, _)
CharStarts(chars, offset) ==
    IF chars = << >> THEN { offset }
    ELSE { offset + j * Head(chars).w : j \in 0..(Head(chars).n - 1) }
         \cup CharStarts(Tail(chars), offset + Head(chars).w * Head(chars).n)

\* str::is_char_boundary
is_char_boundary(chars, i) == i \in CharStarts(chars, 0)

JsonText(type, shape, value) ==
    [ chars |-> Ascii(60),
      json |-> Some([ type |-> type, data |-> [ shape |-> shape, value |-> value ] ]) ]

GarbageText(chars) == [ chars |-> chars, json |-> None ]

SampleTrade ==
    [ id |-> 1, symbol |-> DefaultSymbol, price |-> 100, quantity |-> 2,
      side |-> "Buy", timestamp |-> 1001 ]

SampleBook ==
    [ symbol |-> DefaultSymbol,
      bids |-> << [ price |-> 99, quantity |-> 2, order_count |-> 1 ],
                  [ price |-> 98, quantity |-> 3, order_count |-> 2 ] >>,
      asks |-> << [ price |-> 101, quantity |-> 1, order_count |-> 1 ] >>,
      timestamp |-> 2001, sequence |-> 7 ]

SampleTicker(price) ==
    [ symbol |-> DefaultSymbol, last_price |-> price, timestamp |-> 3000 + price ]

SampleDepth ==
    [ symbol |-> DefaultSymbol,
      bid_depth |-> << [ price |-> 97, cumulative_quantity |-> 4,
                         cumulative_value |-> 388 ] >>,
      ask_depth |-> << >> ]

SampleHeartbeat == [ timestamp |-> 4001 ]

\* 99 ASCII bytes followed by one 3-byte character: 102 bytes, byte 100 is
\* inside the last character.
StraddlingChars == << [ w |-> 1, n |-> 99 ], [ w |-> 3, n |-> 1 ] >>

WellFormedFrames ==
    { [ kind |-> "Text", text |-> JsonText("trade", "Trade", SampleTrade) ],
      [ kind |-> "Text", text |-> JsonText("orderbook", "OrderBookSnapshot", SampleBook) ],
      [ kind |-> "Text", text |-> JsonText("ticker", "Ticker", SampleTicker(100)) ],
      [ kind |-> "Text",
        text |-> JsonText("candle", "Candle", FeedCandle(DefaultSymbol, 1, 2, FALSE)) ],
      [ kind |-> "Text", text |-> JsonText("depth", "MarketDepth", SampleDepth) ],
      [ kind |-> "Text", text |-> JsonText("heartbeat", "Heartbeat", SampleHeartbeat) ],
      [ kind |-> "Bytes",
        utf8 |-> Some(JsonText("ticker", "Ticker", SampleTicker(101))) ] }

MalformedFrames ==
    { [ kind |-> "Text", text |-> JsonText("quote", "Ticker", SampleTicker(100)) ],
      [ kind |-> "Text", text |-> JsonText("trade", "Heartbeat", SampleHeartbeat) ],
      [ kind |-> "Text", text |-> GarbageText(Ascii(8)) ],
      [ kind |-> "Text", text |-> GarbageText(StraddlingChars) ],
      [ kind |-> "Bytes", utf8 |-> None ] }

Frames == WellFormedFrames \cup MalformedFrames

-----------------------------------------------------------------------------
(* dash-websocket: WsClient *)

\* #[serde(tag = "type", content = "data")] enum WsMessage: the payload type
\* each tag requires
PayloadShape(type) ==
    CASE type = "trade" -> "Trade"
      [] type = "orderbook" -> "OrderBookSnapshot"
      [] type = "ticker" -> "Ticker"
      [] type = "candle" -> "Candle"
      [] type = "depth" -> "MarketDepth"
      [] type = "heartbeat" -> "Heartbeat"
      [] OTHER -> "unknown variant"

\* serde_json::from_str::<WsMessage>(text): None is Err
from_str(text) ==
    IF text.json = None THEN None
    ELSE LET env == text.json[1]
         IN  IF PayloadShape(env.type) = env.data.shape
             THEN Some([ kind |-> env.type, value |-> env.data.value ])
             ELSE None

dispatch_message(m, msg) ==
    CASE msg.kind = "trade" -> add_trade(m, msg.value)
      [] msg.kind = "orderbook" -> update_orderbook(m, msg.value)
      [] msg.kind = "ticker" -> update_ticker(m, msg.value)
      [] msg.kind = "candle" -> update_candle(m, msg.value)
      [] msg.kind = "depth" -> [ m EXCEPT !.depth = Some(msg.value) ]
      [] msg.kind = "heartbeat" -> m

\* process_message: the store it leaves, and whether it panicked. On a decode
\* failure the warn! event, when enabled, evaluates
\* &text[..text.len().min(100)], which panics unless that index is a
\* character boundary.
process_message(m, text) ==
    LET r == from_str(text)
    IN  IF r # None
        THEN [ market |-> dispatch_message(m, r[1]), panicked |-> FALSE ]
        ELSE [ market |-> m,
               panicked |-> /\ warn_enabled
                            /\ ~is_char_boundary(text.chars,
                                   Min(ByteLen(text.chars), LOG_PREFIX_BYTES)) ]

\* the match on msg in handle_connection, for Ok frames
handle_frame(m, f) ==
    IF f.kind = "Text" THEN process_message(m, f.text)
    ELSE IF f.utf8 # None THEN process_message(m, f.utf8[1])
    ELSE [ market |-> m, panicked |-> FALSE ]

\* run_connection_loop, lines 101-123: from the should_reconnect check to the
\* await of the timer or the break. path holds the connection state before the
\* step and each value the code before it wrote; err is the error slot as that
\* code left it.
Reconnect(att, path, err) ==
    IF ~should_reconnect(policy, att)
    THEN /\ error' = Some("Max reconnection attempts reached")
         /\ connection' = Last(path)
         /\ conn_path' = path
         /\ pc' = "done"
         /\ exit_reason' = "exhausted"
         /\ delay' = delay
    ELSE /\ delay' = delay_ms(policy, att)
         /\ connection' = "Reconnecting"
         /\ conn_path' = Append(path, "Reconnecting")
         /\ error' = err
         /\ pc' = "waiting"
         /\ exit_reason' = exit_reason

OpenOk_mut_keep_attempt(att, w) ==
    /\ connection' = "Connected"
    /\ conn_path' = << connection, "Connecting", "Connected" >>
    /\ error' = None
    /\ policy' = reset(policy)
    /\ resets' = resets + 1
    /\ attempt' = att
    /\ opens' = opens + 1
    /\ waits' = 0
    /\ pc' = "reading"
    /\ UNCHANGED << delay, exit_reason >>

\* an open that leaves the observed state at Connecting
OpenOk_mut_no_set_connected(att, w) ==
    /\ connection' = "Connecting"
    /\ conn_path' = << connection, "Connecting" >>
    /\ error' = error
    /\ policy' = reset(policy)
    /\ resets' = resets + 1
    /\ attempt' = 0
    /\ opens' = opens + 1
    /\ waits' = 0
    /\ pc' = "reading"
    /\ UNCHANGED << delay, exit_reason >>

\* a set_connected that does not clear the error slot
OpenOk_mut_keep_error(att, w) ==
    /\ connection' = "Connected"
    /\ conn_path' = << connection, "Connecting", "Connected" >>
    /\ error' = error
    /\ policy' = reset(policy)
    /\ resets' = resets + 1
    /\ attempt' = 0
    /\ opens' = opens + 1
    /\ waits' = 0
    /\ pc' = "reading"
    /\ UNCHANGED << delay, exit_reason >>

\* set_connecting (line 70) and WebSocket::open returned Ok: lines 75-84, up to
\* the first read.next().await
OpenOk(att, w) ==
    /\ connection' = "Connected"
    /\ conn_path' = << connection, "Connecting", "Connected" >>
    /\ error' = None
    /\ policy' = reset(policy)
    /\ resets' = resets + 1
    /\ attempt' = 0
    /\ opens' = opens + 1
    /\ waits' = 0
    /\ pc' = "reading"
    /\ UNCHANGED << delay, exit_reason >>

\* set_connecting (line 70) and WebSocket::open returned Err: lines 95-98, then
\* the reconnection check
OpenErr(att, w) ==
    /\ attempt' = att
    /\ waits' = w
    /\ policy' = policy
    /\ UNCHANGED << opens, resets >>
    /\ Reconnect(att, << connection, "Connecting" >>, Some("Connection failed"))

\* a loop that tests the stop flag only after a connection ended
LoopTop_mut_no_stop_check(att, w) ==
    /\ connects < MaxConnects
    /\ connects' = connects + 1
    /\ (OpenOk(att, w) \/ OpenErr(att, w))

\* One pass from the top of the loop (line 61) with attempt = att, up to the
\* next suspension point or break.
LoopTop(att, w) ==
    \/ /\ stopped
       /\ connection' = "Disconnected"
       /\ conn_path' = << connection, "Disconnected" >>
       /\ pc' = "done"
       /\ exit_reason' = "stopped_at_top"
       /\ attempt' = att
       /\ waits' = w
       /\ UNCHANGED << error, delay, policy, opens, resets, connects >>
    \/ /\ ~stopped
       /\ connects < MaxConnects
       /\ connects' = connects + 1
       /\ (OpenOk(att, w) \/ OpenErr(att, w))

\* The task is polled for the first time.
Start ==
    /\ pc = "spawned"
    /\ last_event' = "start"
    /\ LoopTop(attempt, waits)
    /\ UNCHANGED << stopped, warn_enabled, inbound, total_waits, dropped >>
    /\ UNCHANGED storeVars

\* TimeoutFuture completes: attempt += 1 and the next pass of the loop.
TimerFires ==
    /\ pc = "waiting"
    /\ last_event' = "timer"
    /\ total_waits' = total_waits + 1
    /\ LoopTop(attempt + 1, waits + 1)
    /\ UNCHANGED << stopped, warn_enabled, inbound, dropped >>
    /\ UNCHANGED storeVars

AfterConnection_mut_no_set_disconnected ==
    /\ UNCHANGED << attempt, waits, policy, opens, resets, connects >>
    /\ IF stopped
       THEN /\ pc' = "done"
            /\ exit_reason' = "stopped_in_connection"
            /\ conn_path' = << connection >>
            /\ UNCHANGED << connection, error, delay >>
       ELSE Reconnect(attempt, << connection >>, error)

\* handle_connection returned: lines 86-93 and the reconnection check
AfterConnection ==
    /\ UNCHANGED << attempt, waits, policy, opens, resets, connects >>
    /\ IF stopped
       THEN /\ pc' = "done"
            /\ exit_reason' = "stopped_in_connection"
            /\ conn_path' = << connection >>
            /\ UNCHANGED << connection, error, delay >>
       ELSE Reconnect(attempt, << connection, "Disconnected" >>, error)

FramesSeen == Len(inbound) + dropped

RecvFrame_mut_no_stop_check(f) ==
    /\ inbound' = Append(inbound, f)
    /\ dropped' = dropped
    /\ LET r == handle_frame(market, f)
       IN  /\ market' = r.market
           /\ pc' = IF r.panicked THEN "panicked" ELSE "reading"
    /\ conn_path' = << connection >>
    /\ UNCHANGED << connection, error, attempt, delay, policy, opens, resets,
                    waits, connects, exit_reason >>

\* read.next() yields Some(Ok(f)): lines 140-154
RecvFrame(f) ==
    IF stopped
    THEN /\ dropped' = dropped + 1
         /\ UNCHANGED << market, inbound >>
         /\ AfterConnection
    ELSE /\ inbound' = Append(inbound, f)
         /\ dropped' = dropped
         /\ LET r == handle_frame(market, f)
            IN  /\ market' = r.market
                /\ pc' = IF r.panicked THEN "panicked" ELSE "reading"
         /\ conn_path' = << connection >>
         /\ UNCHANGED << connection, error, attempt, delay, policy, opens, resets,
                         waits, connects, exit_reason >>

Recv ==
    /\ pc = "reading"
    /\ FramesSeen < MaxFrames
    /\ last_event' = "frame"
    /\ \E f \in Frames : RecvFrame(f)
    /\ UNCHANGED << stopped, warn_enabled, total_waits >>
    /\ UNCHANGED << wq, seen, inserted, lastop, nops, current_candle, call, heap >>

\* read.next() yields Some(Err(e)): lines 141-143 or 155-158, then teardown
RecvErr ==
    /\ pc = "reading"
    /\ last_event' = "transport_error"
    /\ AfterConnection
    /\ UNCHANGED << stopped, warn_enabled, inbound, total_waits, dropped >>
    /\ UNCHANGED storeVars

\* read.next() yields None: the while-let ends, then teardown
StreamEnd ==
    /\ pc = "reading"
    /\ last_event' = "stream_end"
    /\ AfterConnection
    /\ UNCHANGED << stopped, warn_enabled, inbound, total_waits, dropped >>
    /\ UNCHANGED storeVars

\* WsHandle::stop, called by the owner of the handle between two polls of the task
Stop ==
    /\ ~stopped
    /\ stopped' = TRUE
    /\ UNCHANGED << connection, error, pc, attempt, delay, policy, warn_enabled,
                    inbound, last_event, opens, resets, waits, total_waits,
                    connects, dropped, exit_reason, conn_path >>
    /\ UNCHANGED storeVars

InitFeed ==
    /\ InitStore
    /\ \E p \in Policies, w \in BOOLEAN : InitClientWith(p, w)

NextFeed == Start \/ TimerFires \/ Recv \/ RecvErr \/ StreamEnd \/ Stop

SpecFeed == InitFeed /\ [][NextFeed]_vars

-----------------------------------------------------------------------------
(* Properties of the feed client *)

\* the envelope a frame decodes to, None when it does not
FrameMessage(f) ==
    IF f.kind = "Text" THEN from_str(f.text)
    ELSE IF f.utf8 # None THEN from_str(f.utf8[1])
    ELSE None

\* the mutator the wire protocol assigns to each kind of envelope
ExpectedMutator(m, msg) ==
    IF msg.kind = "trade" THEN add_trade(m, msg.value)
    ELSE IF msg.kind = "orderbook" THEN update_orderbook(m, msg.value)
    ELSE IF msg.kind = "ticker" THEN update_ticker(m, msg.value)
    ELSE IF msg.kind = "candle" THEN update_candle(m, msg.value)
    ELSE IF msg.kind = "depth" THEN [ m EXCEPT !.depth = Some(msg.value) ]
    ELSE m

RECURSIVE ExpectedStore(_, _)
ExpectedStore(m, frames) ==
    IF frames = << >> THEN m
    ELSE LET msg == FrameMessage(Head(frames))
         IN  ExpectedStore(IF msg = None THEN m ELSE ExpectedMutator(m, msg[1]),
                           Tail(frames))

\* C1: the store is the result of applying, in arrival order, one mutator per
\* well-formed frame; malformed and heartbeat frames change nothing and do
\* not drop the connection (after a processed frame the loop is still
\* reading on a Connected connection).
Cex_C1 ==
    /\ market = ExpectedStore(MarketState_new, inbound)
    /\ (last_event = "frame" /\ dropped = 0) =>
           (pc = "reading" /\ connection = "Connected")

\* C6: the delay waited is delay(a) for a the number of waits completed since
\* the last successful open (or the start); the attempt counter is that
\* number, hence 0 right after an open and one more after each wait; reset is
\* called once per successful open.
Thm_C6 ==
    /\ attempt = waits
    /\ resets = opens
    /\ (pc = "waiting" => delay = delay_ms(policy, waits))
    /\ (pc = "reading" => attempt = 0)

Wit_C6 ==
    /\ pc = "waiting"
    /\ opens = 1
    /\ waits = 1
    /\ delay = delay_ms(policy, 1)
    /\ delay # delay_ms(policy, 0)

\* the state of the loop that its own steps change
loopState == << market, connection, error, pc, attempt, delay, policy, inbound,
                opens, resets, waits, total_waits, connects, dropped, exit_reason >>

\* C7: with max_attempts = N > 0 and every open failing, the loop ends at
\* attempt = N after N waits and N + 1 opens with the terminal error in the
\* error slot; once ended it opens nothing, waits on nothing and changes
\* nothing.
Thm_C7 ==
    [][ /\ (policy.max_attempts > 0 /\ opens' = 0 /\ pc' = "done" /\ ~stopped') =>
              /\ exit_reason' = "exhausted"
              /\ attempt' = policy.max_attempts
              /\ total_waits' = policy.max_attempts
              /\ connects' = policy.max_attempts + 1
              /\ error' = Some("Max reconnection attempts reached")
        /\ (pc = "done" => UNCHANGED loopState) ]_vars

Wit_C7 ==
    /\ policy.max_attempts = 2
    /\ opens = 0
    /\ exit_reason = "exhausted"
    /\ total_waits = 2
    /\ connects = 3
    /\ error = Some("Max reconnection attempts reached")

\* C8: whenever the loop ends because stop was signaled, the observed
\* connection state at exit is Disconnected.
Cex_C8 ==
    (pc = "done" /\ exit_reason \in { "stopped_at_top", "stopped_in_connection" }) =>
        connection = "Disconnected"

\* C9: once stop is signaled while the loop is suspended, the step that
\* completes the wait dispatches nothing to the store (a frame returned by the
\* pending read is dropped), opens no connection and ends the loop.
Thm_C9 ==
    [][ stopped =>
            /\ market' = market
            /\ inbound' = inbound
            /\ connects' = connects
            /\ (pc' # pc => pc' = "done") ]_vars

Wit_C9 ==
    /\ stopped
    /\ dropped = 1
    /\ opens = 1
    /\ connects = 1
    /\ pc = "done"
    /\ inbound # << >>

\* C10: a frame that fails to decode changes nothing in the store, leaves the
\* connection Connected and the loop reading the next frame.
Cex_C10 ==
    [][ (pc = "reading" /\ inbound' # inbound /\ FrameMessage(Last(inbound')) = None) =>
            /\ market' = market
            /\ connection' = "Connected"
            /\ pc' = "reading" ]_vars

-----------------------------------------------------------------------------
(* SpecAtomic: the store handlers at the granularity of their signal writes, *)
(* with a reactive observer of the order book and the depth                 *)

Books ==
    { SampleBook,
      [ SampleBook EXCEPT !.bids = << [ price |-> 99, quantity |-> 5, order_count |-> 3 ] >>,
                          !.timestamp = 2002, !.sequence = 8 ],
      [ SampleBook EXCEPT !.symbol = "ETH-USD", !.asks = << >>,
                          !.timestamp = 2003, !.sequence = 1 ] }

\* A handler of the store starts running on the loop's task: its signal
\* writes are pending.
BeginHandler(op, arg, writes) ==
    /\ wq = << >>
    /\ nops < MaxAtomicOps
    /\ nops' = nops + 1
    /\ lastop' = [ op |-> op, arg |-> arg, pre |-> market ]
    /\ wq' = writes
    /\ UNCHANGED << market, seen, inserted, current_candle, call, heap >>
    /\ UNCHANGED clientVars

BeginUpdateOrderbook ==
    \E book \in Books :
        BeginHandler("update_orderbook", book, update_orderbook_writes(book))

BeginSetSymbol ==
    \E sym \in Symbols :
        BeginHandler("set_symbol", sym, set_symbol_writes(market, sym))

BeginClear == BeginHandler("clear", << >>, clear_writes(market))

\* The running handler performs its next signal write.
PerformWrite ==
    /\ wq # << >>
    /\ market' = ApplyWrite(market, Head(wq))
    /\ wq' = Tail(wq)
    /\ UNCHANGED << seen, inserted, lastop, nops, current_candle, call, heap >>
    /\ UNCHANGED clientVars

\* Effects and memos run as tasks of the same single-threaded executor
\* (spawn_local): they run only while no handler is running, since the
\* handlers contain no await.
ObserverMayRun == wq = << >>

\* A reactive observer reads the order book and the depth.
Observe ==
    /\ ObserverMayRun
    /\ seen' = [ orderbook |-> market.orderbook, depth |-> market.depth ]
    /\ seen' # seen
    /\ UNCHANGED << market, wq, inserted, lastop, nops, current_candle, call, heap >>
    /\ UNCHANGED clientVars

InitAtomic == InitStore /\ InitClientWith(DefaultPolicy, FALSE)

NextAtomic ==
    BeginUpdateOrderbook \/ BeginSetSymbol \/ BeginClear \/ PerformWrite \/ Observe

SpecAtomic == InitAtomic /\ [][NextAtomic]_vars

\* the depth is the one derived from the order book (or both are empty)
Paired(orderbook, depth) ==
    \/ orderbook = None /\ depth = None
    \/ orderbook # None /\ depth = Some(from_orderbook(orderbook[1]))

\* C5: update_orderbook replaces order book and depth as one update: every
\* pair an observer reads, and every state in which an observer can run, has
\* the depth derived from the order book it is read with, never the depth of
\* the new book with the old book or the new book with the old depth.
Thm_C5 ==
    /\ Paired(seen.orderbook, seen.depth)
    /\ (ObserverMayRun => Paired(market.orderbook, market.depth))

\* an observer has read the second of two different books, while the writes
\* of a third update are half done
Wit_C5 ==
    /\ lastop.op = "update_orderbook"
    /\ lastop.pre.orderbook # None
    /\ seen.orderbook = lastop.pre.orderbook
    /\ seen.depth = Some(from_orderbook(lastop.pre.orderbook[1]))
    /\ Len(wq) = 1
    /\ market.depth = Some(from_orderbook(lastop.arg))
    /\ market.orderbook # Some(lastop.arg)

-----------------------------------------------------------------------------
(* SpecPolicy: the three ReconnectPolicy implementations as functions *)

\* largest attempt number below 2^31 - 1 the policies are called with
MaxAttemptArg == 5

DefaultLinearBackoff ==
    [ kind |-> "LinearBackoff", initial_delay_ms |-> 1000, increment_ms |-> 1000,
      max_delay_ms |-> 10000, max_attempts |-> 10 ]

DefaultConstantDelay ==
    [ kind |-> "ConstantDelay", delay_ms |-> 3000, max_attempts |-> 5 ]

LinearBackoff_should_reconnect_mut_limited(p, att) == u32_lt(att, p.max_attempts)

LinearBackoff_should_reconnect(p, att) ==
    p.max_attempts = 0 \/ u32_lt(att, p.max_attempts)

ConstantDelay_should_reconnect(p, att) ==
    p.max_attempts = 0 \/ u32_lt(att, p.max_attempts)

\* <P as ReconnectPolicy>::should_reconnect: static dispatch on the policy type
ReconnectPolicy_should_reconnect(p, att) ==
    CASE p.kind = "ExponentialBackoff" -> should_reconnect(p, att)
      [] p.kind = "LinearBackoff" -> LinearBackoff_should_reconnect(p, att)
      [] p.kind = "ConstantDelay" -> ConstantDelay_should_reconnect(p, att)

\* max_attempts of the policies called: unlimited, small limits, the limit of
\* test_should_reconnect and the largest u32
AttemptLimits == (0..MaxPolicyAttempts) \cup { 3, -1 }

PolicyObjects ==
    { [ kind |-> "ExponentialBackoff" ] @@ [ DefaultPolicy EXCEPT !.max_attempts = n ] :
          n \in AttemptLimits }
    \cup { [ DefaultLinearBackoff EXCEPT !.max_attempts = n ] : n \in AttemptLimits }
    \cup { [ DefaultConstantDelay EXCEPT !.max_attempts = n ] : n \in AttemptLimits }

\* attempt numbers passed: 0..MaxAttemptArg, 2^31 - 1, 2^31 and 2^32 - 1
AttemptArgs == (0..MaxAttemptArg) \cup { I32_MAX, I32_MIN, -1 }

\* Exponential policies without jitter: the one of test_exponential_backoff,
\* the default one with jitter off, one whose initial delay exceeds the
\* maximum, and one with a multiplier of 1.
UnjitteredPolicies ==
    { TestPolicy,
      [ DefaultPolicy EXCEPT !.jitter = FALSE ],
      [ TestPolicy EXCEPT !.initial_delay_ms = 20000 ],
      [ TestPolicy EXCEPT !.mult_num = 1 ] }

CallShouldReconnect ==
    /\ \E p \in PolicyObjects, att \in AttemptArgs :
          call' = [ fn |-> "should_reconnect", self |-> p, arg |-> att,
                    result |-> ReconnectPolicy_should_reconnect(p, att) ]
    /\ UNCHANGED << market, wq, seen, inserted, lastop, nops, current_candle, heap >>
    /\ UNCHANGED clientVars

CallDelayMs ==
    /\ \E p \in UnjitteredPolicies, att \in AttemptArgs :
          call' = [ fn |-> "delay_ms", self |-> p, arg |-> att,
                    result |-> delay_ms(p, att) ]
    /\ UNCHANGED << market, wq, seen, inserted, lastop, nops, current_candle, heap >>
    /\ UNCHANGED clientVars

\* the policies the crate constructs with jitter on
JitteredPolicies == { DefaultPolicy, ConservativePolicy }

\* the last attempt number whose product with 7919 fits a u32:
\* u32::MAX / 7919 = 542362
LastUnwrappedAttempt ==
    (2 * (I32_MAX \div JITTER_PRIME)) + (((2 * (I32_MAX % JITTER_PRIME)) + 1) \div JITTER_PRIME)

\* attempt numbers passed to a jittered delay_ms: those of AttemptArgs and the
\* two around the first overflow of attempt * 7919
JitterAttemptArgs == AttemptArgs \cup { LastUnwrappedAttempt, LastUnwrappedAttempt + 1 }

\* a call of delay_ms with jitter on, in a build with or without overflow checks
CallDelayMsJitter ==
    /\ \E p \in JitteredPolicies, att \in JitterAttemptArgs, overflow_checks \in BOOLEAN :
          call' = [ fn |-> "delay_ms", self |-> p, arg |-> att,
                    overflow_checks |-> overflow_checks,
                    result |-> delay_ms_build(p, att, overflow_checks) ]
    /\ UNCHANGED << market, wq, seen, inserted, lastop, nops, current_candle, heap >>
    /\ UNCHANGED clientVars

InitPolicy == InitStore /\ InitClientWith(DefaultPolicy, FALSE)

NextPolicy == CallShouldReconnect \/ CallDelayMs \/ CallDelayMsJitter

SpecPolicy == InitPolicy /\ [][NextPolicy]_vars

\* the position of a u32 in the order of the naturals: (top bit, low 31 bits)
U32Key(x) == IF x >= 0 THEN << 0, x >> ELSE << 1, (x + I32_MAX) + 1 >>

U32Below(x, y) ==
    U32Key(x)[1] < U32Key(y)[1]
    \/ (U32Key(x)[1] = U32Key(y)[1] /\ U32Key(x)[2] < U32Key(y)[2])

\* C11: for the exponential, linear and constant-delay policies and every
\* attempt number, should_reconnect(attempt) is true when max_attempts is 0,
\* and otherwise true exactly when attempt < max_attempts (so false at
\* attempt = max_attempts).
Thm_C11 ==
    call.fn = "should_reconnect" =>
        /\ (call.self.max_attempts = 0 => call.result = TRUE)
        /\ (call.self.max_attempts # 0 =>
               call.result = U32Below(call.arg, call.self.max_attempts))
        /\ (call.self.max_attempts # 0 /\ call.arg = call.self.max_attempts =>
               call.result = FALSE)

\* test_should_reconnect's limit, reached on the linear policy
Wit_C11 ==
    /\ call.fn = "should_reconnect"
    /\ call.self.kind = "LinearBackoff"
    /\ call.self.max_attempts = 3
    /\ call.arg = 3
    /\ call.result = FALSE

\* min(max_delay, initial_delay * multiplier^attempt) over the naturals,
\* truncated to an integer.  For the attempt numbers from 2^31 - 1 on, the
\* power of a multiplier above 1 exceeds every u32, and the power of the
\* multiplier 1 is 1.
CappedExponential(p, att) ==
    IF att \in 0..MaxAttemptArg
    THEN Min(p.max_delay_ms,
             (p.initial_delay_ms * Pow(p.mult_num, att)) \div Pow(p.mult_den, att))
    ELSE IF p.mult_num > p.mult_den THEN p.max_delay_ms
    ELSE Min(p.max_delay_ms, p.initial_delay_ms)

\* the delays test_exponential_backoff asserts for attempts 0..4
TestDelays == << 1000, 2000, 4000, 8000, 10000 >>

\* C12: with jitter disabled, delay_ms(attempt) is
\* min(max_delay, initial_delay * multiplier^attempt) for every attempt: it
\* is non-decreasing in attempt when multiplier >= 1, never exceeds
\* max_delay, and for initial = 1000, multiplier = 2, max = 10000 it yields
\* 1000, 2000, 4000, 8000, 10000 for attempts 0..4.
Cex_C12 ==
    (call.fn = "delay_ms" /\ ~call.self.jitter) =>
        /\ call.result = CappedExponential(call.self, call.arg)
        /\ call.result <= call.self.max_delay_ms
        /\ (call.self.mult_num >= call.self.mult_den =>
               \A earlier \in AttemptArgs :
                   U32Below(earlier, call.arg) =>
                       delay_ms(call.self, earlier) <= call.result)
        /\ (call.self = TestPolicy /\ call.arg \in 0..4 =>
               call.result = TestDelays[call.arg + 1])

-----------------------------------------------------------------------------
(* SpecStore: every mutator of MarketState, one whole call per step *)

Tickers == { SampleTicker(100), SampleTicker(101) }

\* The i-th trade of the batch passed by the k-th store operation: unique id,
\* timestamps differing within the batch.
BatchTrade(k, i) ==
    [ id |-> 1000 * (k + 1) + i, symbol |-> DefaultSymbol, price |-> 100 + (i % 7),
      quantity |-> 1 + (i % 3), side |-> "Buy", timestamp |-> 1000 * (k + 1) + i ]

Batch(k, n) == [ i \in 1..n |-> BatchTrade(k, i) ]

BatchSizes == { 0, 1, 2, MAX_TRADES - 1, MAX_TRADES + 1 }

UpdateTicker ==
    \E t \in Tickers : StoreOp("update_ticker", t, update_ticker(market, t))

UpdateOrderbook ==
    \E b \in Books : StoreOp("update_orderbook", b, update_orderbook(market, b))

AddOneTrade ==
    StoreOp("add_trade", BatchTrade(nops, 0), add_trade(market, BatchTrade(nops, 0)))

AddTrades ==
    \E n \in BatchSizes :
        StoreOp("add_trades", Batch(nops, n), add_trades(market, Batch(nops, n)))

InitMarket == InitStore /\ InitClientWith(DefaultPolicy, FALSE)

NextStore ==
    UpdateTicker \/ UpdateOrderbook \/ AddOneTrade \/ AddTrades \/ UpdateCandle
    \/ SetSymbol \/ SetInterval \/ Clear

SpecStore == InitMarket /\ [][NextStore]_vars

\* the first n elements of s, or all of s when it is shorter
Prefix(s, n) == SubSeq(s, 1, Min(Len(s), n))

\* C13: add_trades(batch) inserts the batch at the head preserving the
\* batch's internal order: on a buffer B the new buffer is the first 100
\* elements of batch followed by B, batch[0] at the head.
Cex_C13 ==
    lastop.op = "add_trades" =>
        market.trades = Prefix(lastop.arg \o lastop.pre.trades, MAX_TRADES)

\* C14: set_symbol(s) leaves the store with symbol = s, ticker, order book
\* and depth empty, the trade buffer empty and an empty candle history keyed
\* to (s, current interval); the selected interval is unchanged.
Thm_C14 ==
    lastop.op = "set_symbol" =>
        /\ market.symbol = lastop.arg
        /\ market.ticker = None
        /\ market.orderbook = None
        /\ market.depth = None
        /\ market.trades = << >>
        /\ market.candles.candles = << >>
        /\ market.candles.symbol = lastop.arg
        /\ market.candles.interval = lastop.pre.interval
        /\ market.interval = lastop.pre.interval

\* the symbol changes on a store holding trades, with the interval M5 selected
Wit_C14 ==
    /\ lastop.op = "set_symbol"
    /\ lastop.arg # lastop.pre.symbol
    /\ lastop.pre.trades # << >>
    /\ lastop.pre.interval = "M5"
    /\ market.trades = << >>
    /\ market.candles.interval = "M5"

\* C15 as stated: set_interval(i) resets ticker, order book, depth and trade
\* buffer to empty and reinitializes the candle history as empty and keyed to
\* (current symbol, i).
Cex_C15 ==
    lastop.op = "set_interval" =>
        /\ market.ticker = None
        /\ market.orderbook = None
        /\ market.depth = None
        /\ market.trades = << >>
        /\ market.candles = CandleHistory_new(lastop.pre.symbol, lastop.arg)

\* C15: set_interval(i) selects the interval i and reinitializes the candle
\* history as empty and keyed to (current symbol, i); it leaves the symbol,
\* the ticker, the order book, the depth, the trade buffer and the
\* last-update markers as they were.
Thm_C15 ==
    lastop.op = "set_interval" =>
        /\ market.interval = lastop.arg
        /\ market.candles = CandleHistory_new(lastop.pre.symbol, lastop.arg)
        /\ market.symbol = lastop.pre.symbol
        /\ market.ticker = lastop.pre.ticker
        /\ market.orderbook = lastop.pre.orderbook
        /\ market.depth = lastop.pre.depth
        /\ market.trades = lastop.pre.trades
        /\ market.last_update = lastop.pre.last_update

\* the interval changes on a store holding a ticker and a candle
Wit_C15 ==
    /\ lastop.op = "set_interval"
    /\ lastop.arg # lastop.pre.interval
    /\ lastop.pre.ticker # None
    /\ lastop.pre.candles.candles # << >>
    /\ market.ticker = lastop.pre.ticker
    /\ market.candles.candles = << >>

-----------------------------------------------------------------------------
(* SpecCandleUpdate: one candle under Candle::new and Candle::update *)

\* prices passed to Candle::new and Candle::update are 1..MaxPrice
MaxPrice == 3
\* quantities passed to Candle::update are 0..MaxQuantity
MaxQuantity == 1
\* number of Candle::update calls explored on the candle
MaxCandleUpdates == 3

Candle_update_mut_no_low(c, price, quantity) ==
    [ c EXCEPT !.high = IF price > c.high THEN price ELSE @,
               !.close = price,
               !.volume = @ + quantity,
               !.quote_volume = @ + price * quantity,
               !.trade_count = @ + 1 ]

Candle_update(c, price, quantity) ==
    [ c EXCEPT !.high = IF price > c.high THEN price ELSE @,
               !.low = IF price < c.low THEN price ELSE @,
               !.close = price,
               !.volume = @ + quantity,
               !.quote_volume = @ + price * quantity,
               !.trade_count = @ + 1 ]

\* MockMarket::update_candle on the first trade: Candle::new at its price
NewCandle ==
    /\ current_candle = None
    /\ \E open \in 1..MaxPrice :
          current_candle' = Some(Candle_new(DefaultSymbol, "M1", 60000, open))
    /\ UNCHANGED << market, wq, seen, inserted, lastop, nops, call, heap >>
    /\ UNCHANGED clientVars

\* MockMarket::update_candle on a later trade of the minute: candle.update
UpdateCurrentCandle ==
    /\ current_candle # None
    /\ nops < MaxCandleUpdates
    /\ \E price \in 1..MaxPrice, quantity \in 0..MaxQuantity :
          /\ current_candle' = Some(Candle_update(current_candle[1], price, quantity))
          /\ call' = [ fn |-> "update", self |-> current_candle[1],
                       arg |-> [ price |-> price, quantity |-> quantity ],
                       result |-> << >> ]
    /\ nops' = nops + 1
    /\ UNCHANGED << market, wq, seen, inserted, lastop, heap >>
    /\ UNCHANGED clientVars

\* Candle::close_candle
close_candle(c) == [ c EXCEPT !.is_closed = TRUE ]

\* close_candle is called on the candle (MockMarket::update_candle calls it on
\* the candle of the minute that ended)
CloseCurrentCandle ==
    /\ current_candle # None
    /\ ~current_candle[1].is_closed
    /\ current_candle' = Some(close_candle(current_candle[1]))
    /\ call' = [ fn |-> "close_candle", self |-> current_candle[1], arg |-> << >>,
                 result |-> << >> ]
    /\ UNCHANGED << market, wq, seen, inserted, lastop, nops, heap >>
    /\ UNCHANGED clientVars

InitCandleUpdate == InitStore /\ InitClientWith(DefaultPolicy, FALSE)

NextCandleUpdate == NewCandle \/ UpdateCurrentCandle \/ CloseCurrentCandle

SpecCandleUpdate == InitCandleUpdate /\ [][NextCandleUpdate]_vars

\* C17: for a candle created by Candle::new, after any sequence of
\* update(price, qty) calls: high >= max(open, close),
\* low <= min(open, close), close is the last price passed, and trade_count
\* is the number of update calls.
Thm_C17 ==
    current_candle # None =>
        /\ current_candle[1].high >= Max(current_candle[1].open, current_candle[1].close)
        /\ current_candle[1].low <= Min(current_candle[1].open, current_candle[1].close)
        /\ (call.fn = "update" => current_candle[1].close = call.arg.price)
        /\ current_candle[1].trade_count = nops

\* test_candle_update: a price above the open, one below it, one in between
Wit_C17 ==
    /\ current_candle # None
    /\ nops = 3
    /\ current_candle[1].open = 2
    /\ current_candle[1].high = 3
    /\ current_candle[1].low = 1
    /\ current_candle[1].close = 2
    /\ current_candle[1].trade_count = 3
    /\ call.fn = "update"
    /\ call.self.close = 1

-----------------------------------------------------------------------------
(* Properties of SpecStore: order book and last-update markers *)

\* update_orderbook was called on a store holding an order book
OnStoredBook == lastop.op = "update_orderbook" /\ lastop.pre.orderbook # None

\* C18 as stated: across any sequence of update_orderbook calls, the sequence
\* number of the order book held in the store never decreases: a snapshot
\* with a lower sequence number than the stored one does not replace it.
Cex_C18 ==
    OnStoredBook =>
        /\ market.orderbook # None
        /\ market.orderbook[1].sequence >= lastop.pre.orderbook[1].sequence
        /\ (lastop.arg.sequence < lastop.pre.orderbook[1].sequence =>
               market.orderbook = lastop.pre.orderbook)

\* C18: update_orderbook(book) replaces the stored order book by book whatever
\* the sequence numbers: the stored sequence number is that of the snapshot
\* applied last, and it decreases exactly when a snapshot with a lower
\* sequence number than the stored one is applied.
Thm_C18 ==
    lastop.op = "update_orderbook" =>
        /\ market.orderbook = Some(lastop.arg)
        /\ market.orderbook[1].sequence = lastop.arg.sequence
        /\ (lastop.pre.orderbook # None =>
               ((market.orderbook[1].sequence < lastop.pre.orderbook[1].sequence)
                    <=> (lastop.arg.sequence < lastop.pre.orderbook[1].sequence)))

\* the snapshot with sequence number 1 has replaced the one with number 8
Wit_C18 ==
    /\ OnStoredBook
    /\ lastop.pre.orderbook[1].sequence = 8
    /\ lastop.arg.sequence = 1
    /\ market.orderbook[1].sequence = 1

-----------------------------------------------------------------------------
(* SpecDepth: MarketDepth::from_orderbook as a function of the order book *)

\* levels per side of the order books explored
MaxLevels == 3
\* level quantities are 0..MaxLevelQty
MaxLevelQty == 2

RECURSIVE SumQuantity(_)
\* levels.iter().map(|l| l.quantity.as_f64()).sum()
SumQuantity(levels) ==
    IF levels = << >> THEN 0 ELSE Head(levels).quantity + SumQuantity(Tail(levels))

total_bid_depth(book) == SumQuantity(book.bids)

total_ask_depth(book) == SumQuantity(book.asks)

\* One side of a book: n levels, prices stepping away from 100 by `step`.
SideLevels(n, step) ==
    { [ i \in 1..n |-> [ price |-> 100 + step * i, quantity |-> qs[i], order_count |-> 1 ] ] :
          qs \in [ 1..n -> 0..MaxLevelQty ] }

DepthBooks ==
    { [ symbol |-> DefaultSymbol, bids |-> b, asks |-> a, timestamp |-> 2001, sequence |-> 1 ] :
          b \in UNION { SideLevels(n, -1) : n \in 0..MaxLevels },
          a \in UNION { SideLevels(n, 1) : n \in 0..MaxLevels } }

InitDepth ==
    /\ InitClientWith(DefaultPolicy, FALSE)
    /\ market = MarketState_new
    /\ wq = << >>
    /\ seen = NoSeen
    /\ inserted = << >>
    /\ lastop = NoOp
    /\ nops = 0
    /\ current_candle = None
    /\ heap = connect
    /\ \E book \in DepthBooks : call = [ NoCall EXCEPT !.arg = book ]

CallFromOrderbook ==
    /\ call.fn = "none"
    /\ call' = [ call EXCEPT !.fn = "from_orderbook", !.result = from_orderbook(call.arg) ]
    /\ UNCHANGED << market, wq, seen, inserted, lastop, nops, current_candle, heap >>
    /\ UNCHANGED clientVars

NextDepth == CallFromOrderbook

SpecDepth == InitDepth /\ [][NextDepth]_vars

\* points is the cumulative projection of levels whose total is `total`
CumulativeOf(levels, points, total) ==
    /\ Len(points) = Len(levels)
    /\ \A i \in 1..Len(levels) :
          /\ points[i].price = levels[i].price
          /\ points[i].cumulative_quantity = SumQuantity(SubSeq(levels, 1, i))
          /\ (i > 1 => points[i].cumulative_quantity >= points[i - 1].cumulative_quantity)
    /\ (levels # << >> => Last(points).cumulative_quantity = total)

\* C19: for every order book with non-negative level quantities,
\* from_orderbook yields, per side, one point per level in the book's order,
\* whose cumulative quantity is the running sum of quantities: the sequence is
\* non-decreasing and its last element equals the side's total depth.
Thm_C19 ==
    call.fn = "from_orderbook" =>
        /\ CumulativeOf(call.arg.bids, call.result.bid_depth, total_bid_depth(call.arg))
        /\ CumulativeOf(call.arg.asks, call.result.ask_depth, total_ask_depth(call.arg))

\* test_market_depth's shape: three levels per side, bid quantities 2, 1, 2
\* accumulating to 2, 3, 5, and an ask level of quantity 0
Wit_C19 ==
    /\ call.fn = "from_orderbook"
    /\ Len(call.arg.bids) = 3
    /\ Len(call.arg.asks) = 3
    /\ call.arg.asks[2].quantity = 0
    /\ call.result.bid_depth[1].cumulative_quantity = 2
    /\ call.result.bid_depth[2].cumulative_quantity = 3
    /\ call.result.bid_depth[3].cumulative_quantity = 5
    /\ call.result.ask_depth[2].cumulative_quantity = call.result.ask_depth[1].cumulative_quantity

\* the last-update category a mutator belongs to
CategoryOf(op) ==
    CASE op = "update_ticker" -> "ticker"
      [] op = "update_orderbook" -> "orderbook"
      [] op \in { "add_trade", "add_trades" } -> "trade"
      [] op = "update_candle" -> "candle"

\* the markers of the other categories are those of the store before the call
OtherMarkersKept(category) ==
    \A other \in DOMAIN market.last_update \ { category } :
        market.last_update[other] = lastop.pre.last_update[other]

\* C20: every mutator records the last-update marker of its own category and
\* of no other: after update_ticker, update_orderbook, add_trade or
\* update_candle the category's marker is the timestamp of the value just
\* applied, and after add_trades the trade marker is the timestamp of the
\* trade now at the head of the buffer.
Cex_C20 ==
    /\ (lastop.op \in { "update_ticker", "update_orderbook", "add_trade", "update_candle" } =>
           /\ market.last_update[CategoryOf(lastop.op)] = lastop.arg.timestamp
           /\ OtherMarkersKept(CategoryOf(lastop.op)))
    /\ (lastop.op = "add_trades" /\ lastop.arg # << >> =>
           /\ market.last_update.trade = market.trades[1].timestamp
           /\ OtherMarkersKept("trade"))

-----------------------------------------------------------------------------
(* SpecHandle: the WsHandles of one connect() call, the caller's use of     *)
(* them and the stop checks of the spawned task (client.rs 45-54, 63, 87,   *)
(* 141, 205-240)                                                            *)

MaxHandles == 4
MaxStopChecks == 3

\* what the handle operations leave alone
notHandleVars ==
    << market, wq, seen, inserted, lastop, current_candle, connection, error, attempt,
       delay, stopped, policy, warn_enabled, inbound, last_event, opens, resets, waits,
       total_waits, connects, dropped, exit_reason, conn_path >>

CallerHandles(H) == { h \in LiveHandles(H) : H.handles[h].owner = "caller" }

\* use_websocket: let handle_cleanup = handle.clone()
CallerClone ==
    /\ Len(heap.handles) < MaxHandles
    /\ \E h \in CallerHandles(heap) :
          /\ heap' = WsHandle_clone(heap, h, "caller")
          /\ call' = [ fn |-> "clone", self |-> heap, arg |-> h, result |-> << >> ]
    /\ UNCHANGED << pc, nops >>
    /\ UNCHANGED notHandleVars

CallerStop ==
    /\ \E h \in CallerHandles(heap) :
          /\ heap' = stop(heap, h)
          /\ call' = [ fn |-> "stop", self |-> heap, arg |-> h, result |-> << >> ]
    /\ UNCHANGED << pc, nops >>
    /\ UNCHANGED notHandleVars

CallerDrop ==
    /\ \E h \in CallerHandles(heap) :
          /\ heap' = WsHandle_drop(heap, h)
          /\ call' = [ fn |-> "drop", self |-> heap, arg |-> h, result |-> << >> ]
    /\ UNCHANGED << pc, nops >>
    /\ UNCHANGED notHandleVars

\* the task's `if handle.is_stopped() { break; }`; the task's handle is dropped
\* when run_connection_loop returns
StopCheck ==
    /\ pc \in { "spawned", "reading" }
    /\ call' = [ fn |-> "is_stopped", self |-> heap, arg |-> TaskHandle,
                 result |-> is_stopped(heap, TaskHandle) ]
    /\ IF is_stopped(heap, TaskHandle)
       THEN /\ pc' = "done"
            /\ heap' = WsHandle_drop(heap, TaskHandle)
            /\ nops' = nops
       ELSE /\ nops < MaxStopChecks
            /\ pc' = "reading"
            /\ heap' = heap
            /\ nops' = nops + 1
    /\ UNCHANGED notHandleVars

InitHandle == InitStore /\ InitClientWith(DefaultPolicy, FALSE)

NextHandle == CallerClone \/ CallerStop \/ CallerDrop \/ StopCheck

SpecHandle == InitHandle /\ [][NextHandle]_vars

\* C21: a handle starts not stopped; a stopped handle stays stopped and a second
\* stop() changes nothing; is_running() is the negation of is_stopped(); all the
\* handles cloned from one handle read the same flag
Thm_C21 ==
    /\ call.fn = "none" => \A h \in LiveHandles(heap) : ~is_stopped(heap, h)
    /\ call.fn # "none" =>
          \A h \in LiveHandles(heap) \cap LiveHandles(call.self) :
              is_stopped(call.self, h) => is_stopped(heap, h)
    /\ call.fn = "stop" =>
          /\ is_stopped(heap, call.arg)
          /\ (is_stopped(call.self, call.arg) => heap = call.self)
    /\ \A h \in LiveHandles(heap) : is_running(heap, h) = ~is_stopped(heap, h)
    /\ \A g, h \in LiveHandles(heap) : is_stopped(heap, g) = is_stopped(heap, h)

\* a second stop() through a clone, with three handles alive
Wit_C21 ==
    /\ call.fn = "stop"
    /\ is_stopped(call.self, call.arg)
    /\ call.arg # CallerHandle
    /\ Cardinality(LiveHandles(heap)) >= 3
    /\ \A h \in LiveHandles(heap) : is_stopped(heap, h) /\ ~is_running(heap, h)

\* C26: once the caller of connect() holds no handle any more, the stop flag that
\* the running loop reads is set (so that its next stop check ends the loop)
Cex_C26 ==
    (CallerHandles(heap) = {} /\ pc # "done") => is_stopped(heap, TaskHandle)

-----------------------------------------------------------------------------
(* The edges of the connection state machine (client.rs 57-126) *)

\* the value `to` was written over the value `from`, as write i + 1 of `path`
EdgeAllowed(path, i, stop_seen, first_pass, err) ==
    LET from == path[i]
        to == path[i + 1]
    IN  CASE to = "Connecting" -> from \in { "Disconnected", "Reconnecting" }
          [] to = "Connected" -> from = "Connecting"
          [] to = "Reconnecting" ->
                \/ from = "Connecting" /\ err = Some("Connection failed")
                \/ from = "Disconnected" /\ i > 1 /\ path[i - 1] = "Connected"
          [] to = "Disconnected" ->
                \/ from = "Connected"
                \/ stop_seen /\ from = "Reconnecting"
                \/ stop_seen /\ from = "Disconnected" /\ first_pass
          [] OTHER -> FALSE

\* C22: every write of the connection signal follows an edge of the state
\* machine: Connecting over Disconnected or Reconnecting, Connected over
\* Connecting, Reconnecting over Connecting (failed open) or over the Disconnected
\* written after a connection ended, Disconnected over Connected or, on stop, over
\* Reconnecting or the initial Disconnected
Thm_C22 ==
    [][ (conn_path' # conn_path \/ connection' # connection) =>
            /\ conn_path'[1] = connection
            /\ Last(conn_path') = connection'
            /\ \A i \in 1..(Len(conn_path') - 1) :
                  EdgeAllowed(conn_path', i, stopped, last_event' = "start", error')
      ]_vars

\* a connection ended and the loop went on to wait for the next attempt, which
\* then opened the second connection
Wit_C22 ==
    /\ conn_path = << "Reconnecting", "Connecting", "Connected" >>
    /\ opens = 2
    /\ last_event = "timer"

\* C23: the first step the loop task takes after stop was signaled (the
\* completion of the read or of the timer it was suspended on, or its first
\* poll) ends the loop: no further read, timer wait or connection attempt starts
Thm_C23 ==
    [][ stopped =>
            /\ pc' = "done"
            /\ exit_reason' \in { "stopped_at_top", "stopped_in_connection" }
            /\ (pc = "waiting" => exit_reason' = "stopped_at_top" /\ total_waits' = total_waits + 1)
            /\ (pc = "reading" => exit_reason' = "stopped_in_connection" /\ total_waits' = total_waits)
            /\ connects' = connects
            /\ opens' = opens
            /\ delay' = delay ]_vars

\* stop was signaled during a backoff wait: the timer fired and the loop ended
\* at the loop top without another attempt
Wit_C23 ==
    /\ stopped
    /\ pc = "done"
    /\ last_event = "timer"
    /\ exit_reason = "stopped_at_top"
    /\ total_waits = 1
    /\ connects = 1

\* C24: with jitter on, for every attempt number delay_ms returns a value, the
\* value is at least 100 ms and within 20% of
\* min(max_delay, initial_delay * multiplier^attempt), and it is the same value
\* whatever the build
Cex_C24 ==
    (call.fn = "delay_ms" /\ call.self.jitter) =>
        /\ call.result # None
        /\ call.result[1] >= JITTER_FLOOR_MS
        /\ LET base == CappedExponential(call.self, call.arg)
           IN  /\ (call.result[1] - base) * 5 <= base
               /\ (base - call.result[1]) * 5 <= base
        /\ \A overflow_checks \in BOOLEAN :
               call.result = delay_ms_build(call.self, call.arg, overflow_checks)

\* C25: Candle::update on a candle that close_candle has closed leaves its open,
\* high, low, close, volume and trade_count as they were
Cex_C25 ==
    (call.fn = "update" /\ call.self.is_closed) =>
        /\ current_candle[1].open = call.self.open
        /\ current_candle[1].high = call.self.high
        /\ current_candle[1].low = call.self.low
        /\ current_candle[1].close = call.self.close
        /\ current_candle[1].volume = call.self.volume
        /\ current_candle[1].trade_count = call.self.trade_count

-----------------------------------------------------------------------------
(* SpecDispatch: the messages of the mock feed dispatched to the store, with  *)
(* set_symbol, set_interval and clear called between two messages            *)

\* run_mock_engine is the market of "BTC-USD"
MockBooks == { b \in Books : b.symbol = DefaultSymbol }

\* What run_mock_engine may send after the messages `sent`: an order book is
\* followed by the depth computed from it; otherwise a trade, its candle, an
\* order book, a ticker or a heartbeat.
MockMessages(sent) ==
    IF sent # << >> /\ Last(sent).kind = "orderbook"
    THEN { [ kind |-> "depth", value |-> from_orderbook(Last(sent).value) ] }
    ELSE { [ kind |-> "trade", value |-> SampleTrade ],
           [ kind |-> "candle", value |-> FeedCandle(DefaultSymbol, 1, 2, FALSE) ],
           [ kind |-> "ticker", value |-> SampleTicker(100) ],
           [ kind |-> "heartbeat", value |-> SampleHeartbeat ] }
         \cup { [ kind |-> "orderbook", value |-> b ] : b \in MockBooks }

\* process_message on the next message of the feed
Dispatch ==
    /\ nops < MaxStoreOps
    /\ \E msg \in MockMessages(inbound) :
          /\ inbound' = Append(inbound, msg)
          /\ market' = dispatch_message(market, msg)
          /\ lastop' = [ op |-> "dispatch_message", arg |-> msg, pre |-> market ]
    /\ nops' = nops + 1
    /\ UNCHANGED << wq, seen, inserted, current_candle, call, heap >>
    /\ UNCHANGED << connection, error, pc, attempt, delay, stopped, policy, warn_enabled,
                    last_event, opens, resets, waits, total_waits, connects, dropped,
                    exit_reason, conn_path >>

InitDispatch == InitStore /\ InitClientWith(DefaultPolicy, FALSE)

NextDispatch == Dispatch \/ SetSymbol \/ SetInterval \/ Clear

SpecDispatch == InitDispatch /\ [][NextDispatch]_vars

\* C27: the stored depth is the projection of the stored order book: both are
\* empty, or the depth is from_orderbook of the order book
Cex_C27 ==
    \/ market.orderbook = None /\ market.depth = None
    \/ /\ market.orderbook # None
       /\ market.depth = Some(from_orderbook(market.orderbook[1]))

-----------------------------------------------------------------------------
(* The store and the error slot against the observed connection state *)

\* C28: a step that changes the market store is a step of handle_connection:
\* the observed connection state is Connected before, during and after it, the
\* loop is reading and stop has not been signaled
Thm_C28 ==
    [][ market' # market =>
            /\ connection = "Connected"
            /\ conn_path' = << "Connected" >>
            /\ connection' = "Connected"
            /\ pc = "reading"
            /\ ~stopped ]_vars

\* a ticker was stored from a frame of the second connection
Wit_C28 ==
    /\ market.ticker # None
    /\ connection = "Connected"
    /\ last_event = "frame"
    /\ opens = 2
    /\ Len(inbound) = 1

\* C29: while the observed connection state is Connected the error slot is
\* empty
Thm_C29 == connection = "Connected" => error = None

\* Connected after a failed first attempt, and a frame that failed to decode
\* was read on the connection
Wit_C29 ==
    /\ connection = "Connected"
    /\ error = None
    /\ connects = 2
    /\ opens = 1
    /\ last_event = "frame"
    /\ inbound # << >>
    /\ FrameMessage(Last(inbound)) = None

\* C30: the ticker, the order book and every trade held in the store carry the
\* store's current symbol
Cex_C30 ==
    /\ (market.ticker # None => market.ticker[1].symbol = market.symbol)
    /\ (market.orderbook # None => market.orderbook[1].symbol = market.symbol)
    /\ \A i \in 1..Len(market.trades) : market.trades[i].symbol = market.symbol

====
